---------------------------- MODULE Spec2Model ----------------------------
(***************************************************************************)
(* A model of the article extractor of mt-html-content:                    *)
(*   src/extractors/content_extractor.py          (variant "v3")          *)
(*   src/extractors/content_extractor_stable.py   (variant "stable")      *)
(*                                                                         *)
(* A document is a forest of nodes.  The live BeautifulSoup tree is an     *)
(* arena: a sequence of node records addressed by stable identifiers, with *)
(* child lists and parent links, so that a list collected by find_all      *)
(* keeps naming the same elements while the tree under it is mutated.      *)
(* str(element) followed by BeautifulSoup(...) is Ser followed by Parse.   *)
(*                                                                         *)
(* Abstractions.  A string (text or attribute value) is a sequence of      *)
(* tokens of a fixed vocabulary; a token has a stripped length, a word     *)
(* count and the set of keywords that occur in it, so a substring test is  *)
(* a membership test.  The length of white space between two tokens is not *)
(* counted.  Scores are exact rationals instead of floats.                 *)
(***************************************************************************)
EXTENDS Integers, Sequences, FiniteSets, TLC

(***************************************************************************)
(* Vocabulary of strings                                                   *)
(***************************************************************************)
\* stripped length in characters of a text token
TokLen(t) ==
  CASE t = "ws" -> 0
    [] t \in {"Para1", "Para2", "Para3", "Para4", "Para5", "Para6"} -> 200
    [] t = "Mid" -> 160
    [] t = "Subtitle" -> 40
    [] t = "RelatedArticles" -> 16
    [] t = "PublishedToday" -> 15
    [] t = "ByJaneDoe" -> 11
    [] OTHER -> 5

\* number of white-space separated words of a text token
TokWords(t) ==
  CASE t = "ws" -> 0
    [] t \in {"Para1", "Para2", "Para3", "Para4", "Para5", "Para6"} -> 30
    [] t = "Mid" -> 25
    [] t = "Subtitle" -> 6
    [] t = "RelatedArticles" -> 2
    [] t = "PublishedToday" -> 2
    [] t = "ByJaneDoe" -> 3
    [] OTHER -> 1

\* lower-cased keywords that are substrings of a token
TokKeys(t) ==
  CASE t = "RelatedArticles" -> {"related", "article"}
    [] t = "PublishedToday" -> {"published"}
    [] t = "article-header" -> {"article", "header"}
    [] t = "page-title" -> {"title"}
    [] t = "share-bar" -> {"share"}
    [] t = "save-button" -> {"save"}
    [] t = "related-posts" -> {"related", "post"}
    [] t = "post-content" -> {"post", "content"}
    [] t = "audio-player" -> {"audio", "player"}
    [] t = "extracted-header" -> {"header"}
    [] t = "extracted-content" -> {"content"}
    [] OTHER -> {t}

\* pattern in value, for a value that is a sequence of tokens
HasKey(val, pat) == \E k \in 1..Len(val) : pat \in TokKeys(val[k])
HasAnyKey(val, pats) == \E p \in pats : HasKey(val, p)

(***************************************************************************)
(* Nodes in nested form: what a serialized HTML string denotes             *)
(***************************************************************************)
AttrNames == {"class", "id", "href", "target", "src", "role", "width",
              "height", "style", "sizes", "data"}
NoAttrs == [n \in AttrNames |-> <<>>]

El(tag, attrs, kids) == [tag |-> tag, attrs |-> attrs, kids |-> kids, txt |-> <<>>]
E(tag, kids) == El(tag, NoAttrs, kids)
Ec(tag, cls, kids) == El(tag, [NoAttrs EXCEPT !["class"] = <<cls>>], kids)
T(tok) == [tag |-> "#text", attrs |-> NoAttrs, kids |-> <<>>, txt |-> <<tok>>]
P(tok) == E("p", <<T(tok)>>)
A(tok) == El("a", [NoAttrs EXCEPT !["href"] = <<"url">>], <<T(tok)>>)
Img(src) == El("img", [NoAttrs EXCEPT !["src"] = <<src>>], <<>>)

IsTag(v) == v.tag # "#text"
HasAttr(v, n) == v.attrs[n] # <<>>

RECURSIVE DescKids(_)
\* the element descendants of a child list, in document order
DescKids(s) ==
  IF s = <<>> THEN <<>>
  ELSE (IF IsTag(Head(s)) THEN <<Head(s)>> \o DescKids(Head(s).kids) ELSE <<>>)
       \o DescKids(Tail(s))

\* element.find_all(): every element below v, in document order
Desc(v) == DescKids(v.kids)
\* element.find_all(names)
FindAll(v, names) == SelectSeq(Desc(v), LAMBDA e : e.tag \in names)
\* element.find_all(names, recursive=False)
FindDirect(v, names) == SelectSeq(v.kids, LAMBDA e : IsTag(e) /\ e.tag \in names)
ElemKids(v) == SelectSeq(v.kids, IsTag)

RECURSIVE TextKids(_)
\* element.get_text(strip=True): the stripped strings, empty ones dropped
TextKids(s) ==
  IF s = <<>> THEN <<>>
  ELSE (IF IsTag(Head(s)) THEN TextKids(Head(s).kids)
        ELSE SelectSeq(Head(s).txt, LAMBDA t : t # "ws"))
       \o TextKids(Tail(s))
GetText(v) == IF IsTag(v) THEN TextKids(v.kids) ELSE SelectSeq(v.txt, LAMBDA t : t # "ws")

RECURSIVE SumLen(_), SumWords(_)
SumLen(s) == IF s = <<>> THEN 0 ELSE TokLen(Head(s)) + SumLen(Tail(s))
SumWords(s) == IF s = <<>> THEN 0 ELSE TokWords(Head(s)) + SumWords(Tail(s))
\* len(element.get_text(strip=True))
TextLen(v) == SumLen(GetText(v))
\* len(text.split()) of a stripped text: joined strings share a word
WordCount(text) == IF text = <<>> THEN 0 ELSE SumWords(text) - (Len(text) - 1)

\* ' '.join(str(v) for v in element.attrs.values()): all attribute tokens
RECURSIVE AttrTokensOf(_, _)
AttrTokensOf(attrs, names) ==
  IF names = {} THEN <<>>
  ELSE LET n == CHOOSE x \in names : TRUE
       IN attrs[n] \o AttrTokensOf(attrs, names \ {n})
AttrTokens(v) == AttrTokensOf(v.attrs, AttrNames)

RECURSIVE StrHasKids(_, _)
\* pattern in str(element).lower(), for a pattern that is in no tag name
StrHasKids(s, pat) ==
  \E k \in 1..Len(s) :
     \/ HasKey(s[k].txt, pat)
     \/ HasKey(AttrTokens(s[k]), pat)
     \/ StrHasKids(s[k].kids, pat)
StrHas(v, pat) == HasKey(AttrTokens(v), pat) \/ StrHasKids(v.kids, pat)

RECURSIVE Size(_), SizeSeq(_)
Size(v) == 1 + SizeSeq(v.kids)
SizeSeq(s) == IF s = <<>> THEN 0 ELSE Size(Head(s)) + SizeSeq(Tail(s))

(***************************************************************************)
(* The arena: a live BeautifulSoup tree                                    *)
(***************************************************************************)
\* identifier of the BeautifulSoup object; its children are a.top
Root == 0
\* parent of a detached or destroyed node (element.parent is None)
NoParent == -1

Nd(a, i) == a.nodes[i]
Kids(a, i) == IF i = Root THEN a.top ELSE a.nodes[i].kids
\* element.parent; the soup itself has none
Par(a, i) == IF i = Root THEN NoParent ELSE a.nodes[i].par
TagOf(a, i) == IF i = Root THEN "[document]" ELSE a.nodes[i].tag
Destroyed(a, i) == i # Root /\ a.nodes[i].dead

RECURSIVE MergeText(_)
\* the parser makes one string of adjacent strings
MergeText(s) ==
  IF Len(s) < 2 THEN s
  ELSE IF ~IsTag(s[1]) /\ ~IsTag(s[2])
       THEN MergeText(<<[s[1] EXCEPT !.txt = s[1].txt \o s[2].txt]>> \o SubSeq(s, 3, Len(s)))
       ELSE <<s[1]>> \o MergeText(Tail(s))

RECURSIVE KidIds(_, _), FlatSeq(_, _, _)
KidIds(s, base) ==
  IF s = <<>> THEN <<>>
  ELSE <<base + 1>> \o KidIds(Tail(s), base + Size(Head(s)))
FlatSeq(s, par, base) ==
  IF s = <<>> THEN <<>>
  ELSE LET v == Head(s)
       IN <<[tag |-> v.tag, attrs |-> v.attrs, txt |-> v.txt, par |-> par,
             kids |-> KidIds(v.kids, base + 1), dead |-> FALSE]>>
          \o FlatSeq(v.kids, base + 1, base + 1)
          \o FlatSeq(Tail(s), par, base + Size(v))

RECURSIVE Norm(_)
\* the forest as the parser sees it: adjacent strings merged at every level
Norm(s) == LET m == MergeText(s)
           IN [k \in 1..Len(m) |-> [m[k] EXCEPT !.kids = Norm(m[k].kids)]]

\* BeautifulSoup(html, 'html.parser'): identifiers in document order
Parse(forest) ==
  LET f == Norm(forest)
  IN [nodes |-> FlatSeq(f, Root, 0), top |-> KidIds(f, 0)]

RECURSIVE Ser(_, _)
\* str(element), as the nested node it denotes
Ser(a, i) ==
  [tag |-> TagOf(a, i),
   attrs |-> IF i = Root THEN NoAttrs ELSE Nd(a, i).attrs,
   txt |-> IF i = Root THEN <<>> ELSE Nd(a, i).txt,
   kids |-> [k \in 1..Len(Kids(a, i)) |-> Ser(a, Kids(a, i)[k])]]
\* str(soup), as a forest
SerTop(a) == Ser(a, Root).kids

IsElem(a, i) == i # Root /\ Nd(a, i).tag # "#text"
RECURSIVE IdsOfKids(_, _)
IdsOfKids(a, s) ==
  IF s = <<>> THEN <<>>
  ELSE (IF IsElem(a, Head(s)) THEN <<Head(s)>> \o IdsOfKids(a, Kids(a, Head(s))) ELSE <<>>)
       \o IdsOfKids(a, Tail(s))
\* identifiers of the element descendants of i, in document order
IdsBelow(a, i) == IdsOfKids(a, Kids(a, i))
\* soup.find_all(names): identifiers, in document order
FindIds(a, i, names) == SelectSeq(IdsBelow(a, i), LAMBDA j : TagOf(a, j) \in names)
\* element.find_all(recursive=False)
ElemKidIds(a, i) == SelectSeq(Kids(a, i), LAMBDA j : IsElem(a, j))

RECURSIVE FindParent(_, _, _)
\* element.find_parent(names): the nearest proper ancestor, or NoParent
FindParent(a, i, names) ==
  LET p == IF i = Root THEN NoParent ELSE Par(a, i)
  IN IF p = NoParent THEN NoParent
     ELSE IF TagOf(a, p) \in names THEN p
     ELSE FindParent(a, p, names)

RECURSIVE Parents(_, _)
\* element.parents: every proper ancestor, nearest first, the soup last
Parents(a, i) ==
  LET p == IF i = Root THEN NoParent ELSE Par(a, i)
  IN IF p = NoParent THEN <<>> ELSE <<p>> \o Parents(a, p)

SeqToSet(s) == {s[k] : k \in 1..Len(s)}
IndexOf(s, x) == CHOOSE k \in 1..Len(s) : s[k] = x
Without(s, x) == SelectSeq(s, LAMBDA y : y # x)
InsertAt(s, k, x) == SubSeq(s, 1, k - 1) \o <<x>> \o SubSeq(s, k, Len(s))

SetKids(a, i, ks) ==
  IF i = Root THEN [a EXCEPT !.top = ks]
  ELSE [a EXCEPT !.nodes[i].kids = ks]
SetPar(a, i, p) == [a EXCEPT !.nodes[i].par = p]

\* element.extract(): out of its parent, subtree kept
Extract(a, i) ==
  IF i = Root \/ Par(a, i) = NoParent THEN a
  ELSE SetPar(SetKids(a, Par(a, i), Without(Kids(a, Par(a, i)), i)), i, NoParent)

RECURSIVE SubtreeIds(_, _), SubtreeOfKids(_, _)
SubtreeOfKids(a, s) ==
  IF s = <<>> THEN {} ELSE SubtreeIds(a, Head(s)) \cup SubtreeOfKids(a, Tail(s))
SubtreeIds(a, i) == (IF i = Root THEN {} ELSE {i}) \cup SubtreeOfKids(a, Kids(a, i))

DeadNode == [tag |-> "None", attrs |-> NoAttrs, txt |-> <<>>, par |-> NoParent,
             kids |-> <<>>, dead |-> TRUE]
\* element.decompose(): extract, then destroy the element and all below it
Decompose(a, i) ==
  LET gone == SubtreeIds(a, i)
      b == Extract(a, i)
  IN [nodes |-> [j \in 1..Len(b.nodes) |-> IF j \in gone THEN DeadNode ELSE b.nodes[j]],
      top |-> IF i = Root THEN <<>> ELSE b.top]

\* ref.insert_before(x): x leaves its place and becomes the sibling before ref
InsertBefore(a, ref, x) ==
  LET b == Extract(a, x)
      p == Par(b, ref)
  IN SetPar(SetKids(b, p, InsertAt(Kids(b, p), IndexOf(Kids(b, p), ref), x)), x, p)

\* old.replace_with(x), x an element of the tree
ReplaceWith(a, old, x) ==
  LET p == Par(a, old)
      k == IndexOf(Kids(a, p), old)
      b == Extract(Extract(a, old), x)
  IN SetPar(SetKids(b, p, InsertAt(Kids(b, p), k, x)), x, p)

\* old.replace_with(text), text a new string
ReplaceWithText(a, old, toks) ==
  LET p == Par(a, old)
      k == IndexOf(Kids(a, p), old)
      n == Len(a.nodes) + 1
      b == Extract(a, old)
      c == [b EXCEPT !.nodes = Append(b.nodes,
              [tag |-> "#text", attrs |-> NoAttrs, txt |-> toks, par |-> p,
               kids |-> <<>>, dead |-> FALSE])]
  IN SetKids(c, p, InsertAt(Kids(c, p), k, n))

SetAttr(a, i, n, val) == [a EXCEPT !.nodes[i].attrs[n] = val]

(***************************************************************************)
(* _remove_noise                                                           *)
(***************************************************************************)
\* protected_elements: a Python set of Tags.  A Tag hashes by its string and
\* compares by structure, so an entry answers a lookup only for an element
\* whose string is the one the entry had when it was added and still has.
ProtectedElements(a) ==
  LET h1s == SeqToSet(FindIds(a, Root, {"h1"}))
  IN {[id |-> h, snap |-> Ser(a, h)] : h \in h1s}
     \cup {[id |-> Par(a, h), snap |-> Ser(a, Par(a, h))] : h \in h1s}

\* element in protected_elements
InProtected(a, prot, e) ==
  \E r \in prot : r.snap = Ser(a, e) /\ Ser(a, r.id) = Ser(a, e)

AudioPattern == {"audio", "player", "podcast", "sound"}

\* header, footer, aside and nav elements that neither are nor hold a protected one
NoiseTagged(a, prot) ==
  SelectSeq(FindIds(a, Root, {"header", "footer", "aside", "nav"}),
            LAMBDA e : ~(\/ InProtected(a, prot, e)
                         \/ \E d \in SeqToSet(IdsBelow(a, e)) : InProtected(a, prot, d)))

\* audio, time and svg elements, then every unprotected element with an
\* audio-like attribute value
AudioLike(a, prot) ==
  FindIds(a, Root, {"audio", "time", "svg"})
  \o SelectSeq(IdsBelow(a, Root),
               LAMBDA e : ~InProtected(a, prot, e)
                          /\ HasAnyKey(AttrTokens(Nd(a, e)), AudioPattern))

StructuralTags == {"article", "main", "div", "section", "body", "html"}

RECURSIVE LinkLoop(_, _, _, _)
\* the loop over soup.find_all('a'); documents do not nest anchors, so no
\* link of the list has been destroyed when its turn comes
LinkLoop(a, prot, links, rem) ==
  IF links = <<>> THEN [soup |-> a, rem |-> rem]
  ELSE
    LET link == Head(links)
        rest == Tail(links)
        target == Nd(a, link).attrs["target"]
        parent == Par(a, link)
        text == GetText(Ser(a, link))
    IN IF InProtected(a, prot, link) THEN LinkLoop(a, prot, rest, rem)
       ELSE IF ~(Nd(a, link).attrs["href"] # <<>> \/ target \in {<<"_self">>, <<"_blank">>})
       THEN LinkLoop(a, prot, rest, rem)
       ELSE IF FindParent(a, link, {"p"}) # NoParent
       THEN IF text # <<>>
            THEN LinkLoop(ReplaceWithText(a, link, text), prot, rest, rem)
            ELSE LinkLoop(Decompose(a, link), prot, rest, rem)
       ELSE IF /\ parent # NoParent
               /\ ~InProtected(a, prot, parent)
               /\ TagOf(a, parent) \notin StructuralTags
       THEN LinkLoop(a, prot, rest, Append(rem, parent))
       ELSE LinkLoop(Decompose(a, link), prot, rest, rem)

RECURSIVE RemoveLoop(_, _)
\* for element in elements_to_remove: if element.parent: element.decompose()
RemoveLoop(a, rem) ==
  IF rem = <<>> THEN a
  ELSE IF Par(a, Head(rem)) # NoParent
       THEN RemoveLoop(Decompose(a, Head(rem)), Tail(rem))
       ELSE RemoveLoop(a, Tail(rem))

RemoveNoise(a) ==
  LET prot == ProtectedElements(a)
      rem0 == NoiseTagged(a, prot) \o AudioLike(a, prot)
      r == LinkLoop(a, prot, FindIds(a, Root, {"a"}), rem0)
  IN RemoveLoop(r.soup, r.rem)

(***************************************************************************)
(* _find_h1_container (content_extractor.py)                               *)
(***************************************************************************)
\* the value None
NoneNode == [tag |-> "None", attrs |-> NoAttrs, kids |-> <<>>, txt |-> <<>>]

RECURSIVE UpToBody(_, _)
\* for parent in h1.parents, until the body
UpToBody(a, ps) ==
  IF ps = <<>> \/ TagOf(a, Head(ps)) = "body" THEN <<>>
  ELSE <<Head(ps)>> \o UpToBody(a, Tail(ps))

HeaderLike(a, p) ==
  /\ TagOf(a, p) \in {"div", "section"}
  /\ \/ HasAnyKey(Nd(a, p).attrs["class"], {"header", "title", "meta", "info"})
     \/ HasAnyKey(Nd(a, p).attrs["id"], {"header", "title"})

MetadataPatterns == {"author", "byline", "date", "time", "published", "meta",
                     "tag", "category", "topic", "share", "social"}
IsMetadataElement(v) ==
  IsTag(v) /\ (\/ HasAnyKey(v.attrs["class"], MetadataPatterns)
               \/ HasAnyKey(GetText(v), MetadataPatterns))

RECURSIVE NextMetadata(_)
\* the scan of h1.find_next_siblings()
NextMetadata(sibs) ==
  IF sibs = <<>> THEN <<>>
  ELSE IF IsMetadataElement(Head(sibs)) THEN <<Head(sibs)>> \o NextMetadata(Tail(sibs))
  ELSE IF Head(sibs).tag \in {"p", "div"} THEN <<>>
  ELSE NextMetadata(Tail(sibs))

\* the new header: the h1 with copies of the metadata siblings around it
SynthesizeHeader(a, h1) ==
  LET sibs == Kids(a, Par(a, h1))
      k == IndexOf(sibs, h1)
      before == SelectSeq(SubSeq(sibs, 1, k - 1), LAMBDA j : IsElem(a, j))
      after == SelectSeq(SubSeq(sibs, k + 1, Len(sibs)), LAMBDA j : IsElem(a, j))
      prev == SelectSeq([j \in 1..Len(before) |-> Ser(a, before[j])], IsMetadataElement)
      next == NextMetadata([j \in 1..Len(after) |-> Ser(a, after[j])])
  IN Ec("header", "extracted-header", prev \o <<Ser(a, h1)>> \o next)

FindH1Container(a) ==
  LET h1s == FindIds(a, Root, {"h1"})
  IN IF h1s = <<>> THEN NoneNode
     ELSE LET h1 == h1s[1]
              hdr == FindParent(a, h1, {"header"})
              like == SelectSeq(UpToBody(a, Parents(a, h1)), LAMBDA p : HeaderLike(a, p))
          IN IF hdr # NoParent THEN Ser(a, hdr)
             ELSE IF like # <<>> THEN Ser(a, like[1])
             ELSE SynthesizeHeader(a, h1)

(***************************************************************************)
(* Thresholds (ContentExtractorV3.__init__) and exact rational scores      *)
(***************************************************************************)
MinTextLength == 150
MinParagraphCount == 3

RECURSIVE Gcd(_, _)
Gcd(x, y) == IF y = 0 THEN x ELSE Gcd(y, x % y)
Rat(n, d) == LET g == Gcd(n, d) IN [n |-> n \div g, d |-> d \div g]
RAdd(x, y) == Rat(x.n * y.d + y.n * x.d, x.d * y.d)
RMul(x, y) == Rat(x.n * y.n, x.d * y.d)
RGt(x, y) == x.n * y.d > y.n * x.d
RZero == Rat(0, 1)

HeadingTags == {"h1", "h2", "h3", "h4", "h5", "h6"}
PCount(v) == Len(FindAll(v, {"p"}))

(***************************************************************************)
(* _find_article_container (content_extractor.py)                          *)
(***************************************************************************)
GetContentDensity(v) ==
  LET total_nodes == Len(ElemKids(v))
      density == Rat(TextLen(v), IF total_nodes > 1 THEN total_nodes ELSE 1)
  IN RAdd(density, Rat(PCount(v) * 100 + Len(FindAll(v, HeadingTags)) * 50, 1))

\* the semantic markup bonus applied to the density
BaseScore(v) ==
  IF v.tag = "article" THEN RMul(GetContentDensity(v), Rat(3, 2))
  ELSE IF v.tag = "main" THEN RMul(GetContentDensity(v), Rat(13, 10))
  ELSE GetContentDensity(v)

\* a scorer that looks at the element alone
ScoreSelf(a, e) == [score |-> BaseScore(Ser(a, e)), cont |-> e]

RECURSIVE ScoreContainer(_, _), BestChild(_, _, _)
\* the loop over content_children: the first child with the highest score
BestChild(a, kids, acc) ==
  IF kids = <<>> THEN acc
  ELSE LET r == ScoreContainer(a, Head(kids))
       IN BestChild(a, Tail(kids), IF RGt(r.score, acc.score) THEN r ELSE acc)
\* score_container: (total_score, representative container)
ScoreContainer(a, e) ==
  LET base == BaseScore(Ser(a, e))
      content_children == SelectSeq(ElemKidIds(a, e),
                             LAMBDA c : TagOf(a, c) \in {"div", "article", "main", "section"})
      best == BestChild(a, content_children, [score |-> RZero, cont |-> NoParent])
      total == RAdd(base, RMul(best.score, Rat(4, 5)))
  IN IF RGt(base, best.score) \/ best.cont = NoParent
     THEN [score |-> total, cont |-> e]
     ELSE [score |-> total, cont |-> best.cont]

\* the (score, container) pairs of the seeds that score above zero
ScoredSeeds(a, seeds) ==
  SelectSeq([k \in 1..Len(seeds) |-> ScoreContainer(a, seeds[k])],
            LAMBDA r : RGt(r.score, RZero))

\* the seeds: root-level article/main, else every article/main; the names
\* 'div[class*="content"]' and 'div[class*="article"]' are tag names no
\* element has
Candidates(a) ==
  LET first == ScoredSeeds(a, SelectSeq(ElemKidIds(a, Root),
                                  LAMBDA e : TagOf(a, e) \in {"article", "main"}))
  IN IF first # <<>> THEN first
     ELSE ScoredSeeds(a, FindIds(a, Root, {"article", "main"}))

MeetsMinimum(a, r) ==
  /\ PCount(Ser(a, r.cont)) >= MinParagraphCount
  /\ TextLen(Ser(a, r.cont)) >= MinTextLength

RECURSIVE MaxByScore(_, _)
\* max(candidates, key=score): the first of the highest
MaxByScore(cands, acc) ==
  IF cands = <<>> THEN acc
  ELSE MaxByScore(Tail(cands), IF RGt(Head(cands).score, acc.score) THEN Head(cands) ELSE acc)

\* the selected body container, or NoParent for None
FindArticleContainer(a) ==
  LET good == SelectSeq(Candidates(a), LAMBDA r : MeetsMinimum(a, r))
  IN IF good = <<>> THEN NoParent
     ELSE MaxByScore(Tail(good), Head(good)).cont

(***************************************************************************)
(* _merge_content                                                          *)
(***************************************************************************)
\* is_duplicate returns True, False, a new header Tag or None
Truthy(d) == d.kind \in {"true", "tag"}

RECURSIVE FigureImgs(_, _)
\* the nested images of a figure: stops at the first src already seen
FigureImgs(imgs, seen) ==
  IF imgs = <<>> THEN [kind |-> "false", node |-> NoneNode, seen |-> seen]
  ELSE IF Head(imgs).attrs["src"] \in seen.img
       THEN [kind |-> "true", node |-> NoneNode, seen |-> seen]
       ELSE FigureImgs(Tail(imgs),
                       [seen EXCEPT !.img = @ \cup {Head(imgs).attrs["src"]}])

RECURSIVE IsDuplicate(_, _), HeaderLoop(_, _, _, _, _)
\* `for child in element.children: ... new_header.append(child)`: the append
\* takes the child out of the list the loop walks, so the loop's index skips
\* the node that followed it
HeaderLoop(contents, i, kept, seen, has_content) ==
  IF i > Len(contents)
  THEN IF has_content
       THEN [kind |-> "tag", node |-> Ec("header", "article-header", kept), seen |-> seen]
       ELSE [kind |-> "none", node |-> NoneNode, seen |-> seen]
  ELSE IF ~IsTag(contents[i]) THEN HeaderLoop(contents, i + 1, kept, seen, has_content)
  ELSE LET d == IsDuplicate(contents[i], seen)
       IN IF Truthy(d) THEN HeaderLoop(contents, i + 1, kept, d.seen, has_content)
          ELSE HeaderLoop(SubSeq(contents, 1, i - 1) \o SubSeq(contents, i + 1, Len(contents)),
                          i + 1, Append(kept, contents[i]), d.seen, TRUE)

IsDuplicate(e, seen) ==
  IF ~IsTag(e) THEN [kind |-> "false", node |-> NoneNode, seen |-> seen]
  ELSE IF e.tag \in {"p"} \cup HeadingTags
  THEN IF GetText(e) \in seen.text
       THEN [kind |-> "true", node |-> NoneNode, seen |-> seen]
       ELSE [kind |-> "false", node |-> NoneNode,
             seen |-> [seen EXCEPT !.text = @ \cup {GetText(e)}]]
  ELSE IF e.tag \in {"img", "picture", "figure"}
  THEN IF e.attrs["src"] \in seen.img
       THEN [kind |-> "true", node |-> NoneNode, seen |-> seen]
       ELSE IF e.tag = "figure"
       THEN FigureImgs(FindAll(e, {"img"}), [seen EXCEPT !.img = @ \cup {e.attrs["src"]}])
       ELSE [kind |-> "false", node |-> NoneNode,
             seen |-> [seen EXCEPT !.img = @ \cup {e.attrs["src"]}]]
  ELSE IF e.tag = "header" THEN HeaderLoop(e.kids, 1, <<>>, seen, FALSE)
  ELSE [kind |-> "false", node |-> NoneNode, seen |-> seen]

RECURSIVE MergeLoop(_, _, _, _)
\* `for element in content.children`, appending to new_container
MergeLoop(contents, i, out, seen) ==
  IF i > Len(contents) THEN [out |-> out, seen |-> seen]
  ELSE IF ~IsTag(contents[i]) THEN MergeLoop(contents, i + 1, out, seen)
  ELSE LET d == IsDuplicate(contents[i], seen)
       IN IF contents[i].tag = "header"
          THEN MergeLoop(contents, i + 1,
                         IF Truthy(d) THEN Append(out, d.node) ELSE out, d.seen)
          ELSE IF Truthy(d) THEN MergeLoop(contents, i + 1, out, d.seen)
          ELSE MergeLoop(SubSeq(contents, 1, i - 1) \o SubSeq(contents, i + 1, Len(contents)),
                         i + 1, Append(out, contents[i]), d.seen)

RECURSIVE DropH1(_)
\* for h1 in body_content.find_all('h1'): h1.decompose()
DropH1(s) ==
  LET keep == SelectSeq(s, LAMBDA v : v.tag # "h1")
  IN [k \in 1..Len(keep) |-> [keep[k] EXCEPT !.kids = DropH1(keep[k].kids)]]

\* _merge_content(header, body), header and body as their strings denote
MergeContent(header, body) ==
  LET h == MergeLoop(Norm(<<header>>), 1, <<>>, [text |-> {}, img |-> {}])
      b == MergeLoop(DropH1(Norm(<<body>>)), 1, h.out, h.seen)
  IN Ec("article", "extracted-content", b.out)

(***************************************************************************)
(* _clean_extracted_content                                                *)
(***************************************************************************)
InteractiveTags == {"button", "input", "select", "textarea", "form", "dialog",
                    "details", "menu", "menuitem", "iframe", "embed", "object",
                    "audio", "time"}

\* is_empty_container, for a live element or a destroyed one (no name, no text)
IsEmptyContainer(a, e) ==
  /\ TagOf(a, e) \notin {"img", "video", "figure", "picture"}
  /\ GetText(Ser(a, e)) = <<>>

\* should_remove_container, for a live element
ShouldRemoveContainer(a, e) ==
  LET v == Ser(a, e)
      attrs_str == AttrTokens(v)
      no_p == FindAll(v, {"p"}) = <<>>
  IN IF FindAll(v, {"h1"}) # <<>> \/ v.tag \in {"html", "body"} THEN FALSE
     ELSE IF v.tag \in {"p", "article"} THEN FALSE
     ELSE IF Len(FindDirect(v, {"p"})) > 1 THEN FALSE
     ELSE IF /\ (v.tag \in InteractiveTags
                 \/ \E k \in 1..Len(Desc(v)) : Desc(v)[k].tag \in InteractiveTags)
             /\ FindAll(v, {"p", "img", "h1", "h2", "h3"}) = <<>>
     THEN TRUE
     ELSE IF v.tag \in {"a", "span"} /\ FindParent(a, e, {"p"}) # NoParent THEN FALSE
     ELSE IF v.tag \in {"a", "span"} /\ WordCount(GetText(v)) < 10 THEN TRUE
     ELSE IF HasKey(attrs_str, "share") THEN TRUE
     ELSE IF StrHas(v, "related") /\ no_p THEN TRUE
     ELSE IF HasKey(attrs_str, "save") THEN TRUE
     ELSE IF HasKey(attrs_str, "related") /\ no_p THEN TRUE
     ELSE FALSE

\* should_remove_container of content_extractor_stable.py: no share/save rule
ShouldRemoveStable(a, e) ==
  LET v == Ser(a, e)
      no_p == FindAll(v, {"p"}) = <<>>
  IN IF FindAll(v, {"h1"}) # <<>> \/ v.tag \in {"html", "body"} THEN FALSE
     ELSE IF v.tag \in {"p", "article"} THEN FALSE
     ELSE IF Len(FindDirect(v, {"p"})) > 1 THEN FALSE
     ELSE IF /\ (v.tag \in InteractiveTags
                 \/ \E k \in 1..Len(Desc(v)) : Desc(v)[k].tag \in InteractiveTags)
             /\ FindAll(v, {"p", "img", "h1", "h2", "h3"}) = <<>>
     THEN TRUE
     ELSE IF v.tag \in {"a", "span"} /\ FindParent(a, e, {"p"}) # NoParent THEN FALSE
     ELSE IF v.tag \in {"a", "span"} /\ WordCount(GetText(v)) < 10 THEN TRUE
     ELSE IF StrHas(v, "related") /\ no_p THEN TRUE
     ELSE IF HasKey(AttrTokens(v), "related") /\ no_p THEN TRUE
     ELSE FALSE

\* a collapse that counts the wrapper but leaves it in the tree
CollapseKeep(a, e, child) == a

\* the single-child collapse: the child takes the wrapper's id and class when
\* it has none, then the wrapper's place
Collapse(a, e, child) ==
  LET idv == IF Nd(a, child).attrs["id"] = <<>> THEN Nd(a, e).attrs["id"]
             ELSE Nd(a, child).attrs["id"]
      clv == IF Nd(a, child).attrs["class"] = <<>> THEN Nd(a, e).attrs["class"]
             ELSE Nd(a, child).attrs["class"]
  IN ReplaceWith(SetAttr(SetAttr(a, child, "id", idv), child, "class", clv), e, child)

RECURSIVE StructureLoop(_, _, _)
\* first loop of clean_pass, over soup.find_all(['div', 'section'])
StructureLoop(a, list, removed) ==
  IF list = <<>> THEN [soup |-> a, removed |-> removed]
  ELSE
    LET e == Head(list)
        v == Ser(a, e)
        children == ElemKidIds(a, e)
    IN IF Par(a, e) = NoParent THEN StructureLoop(a, Tail(list), removed)
       ELSE IF FindAll(v, {"p", "h1", "img", "picture", "figure", "video"}) = <<>>
       THEN StructureLoop(Decompose(a, e), Tail(list), removed + 1)
       ELSE IF FindDirect(v, {"p"}) # <<>> THEN StructureLoop(a, Tail(list), removed)
       ELSE IF Len(children) = 1
               /\ TagOf(a, children[1]) \in {"article", "main", "div", "section"}
       THEN StructureLoop(Collapse(a, e, children[1]), Tail(list), removed + 1)
       ELSE StructureLoop(a, Tail(list), removed)

RECURSIVE HoistLoop(_, _, _)
\* for p in paragraphs: element.insert_before(p)
HoistLoop(a, e, ps) ==
  IF ps = <<>> THEN a ELSE HoistLoop(InsertBefore(a, e, Head(ps)), e, Tail(ps))

\* the removal of an element should_remove_container accepted
RemoveContainer(a, e) ==
  LET parent == Par(a, e)
  IN IF TagOf(a, e) \in InteractiveTags /\ parent # NoParent
     THEN IF /\ TagOf(a, parent) \notin {"html", "body"}
             /\ FindAll(Ser(a, parent), {"p"}) = <<>>
             /\ WordCount(GetText(Ser(a, parent))) < 10
          THEN Decompose(a, parent)
          ELSE Decompose(a, e)
     ELSE Decompose(HoistLoop(a, e, FindIds(a, e, {"p"})), e)

RECURSIVE NoiseLoop(_, _, _, _, _)
\* second loop of clean_pass, over soup.find_all().  An element destroyed
\* earlier in the loop has lost its name and attributes; what str() of it
\* does is the library's choice: it renders (and nothing matches), or raises
\* outside the inner try, which ends the pass.
NoiseLoop(a, list, removed, raises, var) ==
  IF list = <<>> THEN [soup |-> a, removed |-> removed, raised |-> FALSE]
  ELSE IF Destroyed(a, Head(list))
  THEN IF raises THEN [soup |-> a, removed |-> removed, raised |-> TRUE]
       ELSE NoiseLoop(a, Tail(list), removed, raises, var)
  ELSE IF (IF var = "v3" THEN ShouldRemoveContainer(a, Head(list))
           ELSE ShouldRemoveStable(a, Head(list)))
  THEN NoiseLoop(RemoveContainer(a, Head(list)), Tail(list), removed + 1, raises, var)
  ELSE NoiseLoop(a, Tail(list), removed, raises, var)

RECURSIVE EmptyLoop(_, _, _)
\* third loop of clean_pass, over soup.find_all()
EmptyLoop(a, list, removed) ==
  IF list = <<>> THEN [soup |-> a, removed |-> removed]
  ELSE LET e == Head(list)
       IN IF /\ IsEmptyContainer(a, e)
             /\ FindDirect(Ser(a, e), {"p", "img", "h1", "h2", "h3", "picture"}) = <<>>
          THEN EmptyLoop(Decompose(a, e), Tail(list), removed + 1)
          ELSE EmptyLoop(a, Tail(list), removed)

\* clean_pass: the tree it leaves and the count it returns (0 when it raised)
CleanPass(a, raises, var) ==
  LET s1 == StructureLoop(a, FindIds(a, Root, {"div", "section"}), 0)
      s2 == NoiseLoop(s1.soup, IdsBelow(s1.soup, Root), s1.removed, raises, var)
      s3 == EmptyLoop(s2.soup, IdsBelow(s2.soup, Root), s2.removed)
  IN IF s2.raised THEN [soup |-> s2.soup, removed |-> 0]
     ELSE [soup |-> s3.soup, removed |-> s3.removed]

(***************************************************************************)
(* _standardize_media_dimensions                                           *)
(***************************************************************************)
\* soup.select('iframe[src*="video"]')
VideoFrame(a, e) == TagOf(a, e) = "iframe" /\ HasKey(Nd(a, e).attrs["src"], "video")

\* sizing that sets the style and leaves width and height as they came
SizeStyleOnly(a, e, style) ==
  [a EXCEPT !.nodes[e].attrs = [@ EXCEPT !["style"] = <<style>>]]

SizeMedia(a, e, style) ==
  [a EXCEPT !.nodes[e].attrs =
     [@ EXCEPT !["style"] = <<style>>, !["width"] = <<"256">>,
               !["height"] = <<"256">>, !["sizes"] = <<>>]]

RECURSIVE SizeLoop(_, _, _)
SizeLoop(a, list, style) ==
  IF list = <<>> THEN a ELSE SizeLoop(SizeMedia(a, Head(list), style), Tail(list), style)

\* every img, video, picture and video iframe gets 256 x 256; a picture's
\* style is then set again
StandardizeMediaDimensions(a) ==
  LET media == SelectSeq(IdsBelow(a, Root),
                 LAMBDA e : TagOf(a, e) \in {"img", "video", "picture"} \/ VideoFrame(a, e))
      b == SizeLoop(a, media, "cover")
      pics == FindIds(b, Root, {"picture"})
  IN [b EXCEPT !.nodes = [j \in 1..Len(b.nodes) |->
        IF j \in SeqToSet(pics) THEN [b.nodes[j] EXCEPT !.attrs["style"] = <<"inline-block">>]
        ELSE b.nodes[j]]]

(***************************************************************************)
(* content_extractor_stable.py: _is_complete_article, _find_article_container *)
(***************************************************************************)
\* first_h1.find_previous_siblings(['p', 'div', 'section'])
BlocksBefore(a, h1) ==
  LET sibs == Kids(a, Par(a, h1))
  IN Len(SelectSeq(SubSeq(sibs, 1, IndexOf(sibs, h1) - 1),
                   LAMBDA j : TagOf(a, j) \in {"p", "div", "section"}))

\* a completeness check that tolerates four blocks above the headline
IsCompleteDeep(a, e) ==
  LET h1s == FindIds(a, e, {"h1"})
  IN IF h1s # <<>> /\ BlocksBefore(a, h1s[1]) > 4 THEN FALSE
     ELSE /\ h1s # <<>>
          /\ PCount(Ser(a, e)) >= MinParagraphCount
          /\ TextLen(Ser(a, e)) >= MinTextLength * 2

\* _is_complete_article(element); the same in both files
IsCompleteArticle(a, e) ==
  LET h1s == FindIds(a, e, {"h1"})
  IN IF h1s # <<>> /\ BlocksBefore(a, h1s[1]) > 2 THEN FALSE
     ELSE /\ h1s # <<>>
          /\ PCount(Ser(a, e)) >= MinParagraphCount
          /\ TextLen(Ser(a, e)) >= MinTextLength * 2

ContentPatterns == {"article", "content", "main", "post", "entry", "story", "text",
                    "body", "news", "blog", "detail", "single"}

RECURSIVE LinkText(_)
\* sum(len(a.get_text(strip=True)) for a in links)
LinkText(links) == IF links = <<>> THEN 0 ELSE TextLen(Head(links)) + LinkText(Tail(links))

RMin(x, y) == IF RGt(x, y) THEN y ELSE x
\* score * (1 - link_text / text_len), for link_text <= text_len
LinkPenalty(score, v, text_len) ==
  IF FindAll(v, {"a"}) = <<>> THEN score
  ELSE RMul(score, Rat(text_len - LinkText(FindAll(v, {"a"})), text_len))

\* score_article(element)
ScoreArticle(v) ==
  LET text_len == TextLen(v)
      raw == RAdd(RMin(Rat(text_len, 500), Rat(20, 1)),
                  Rat((IF FindAll(v, {"h1"}) # <<>> THEN 25 ELSE 0)
                      + PCount(v) * 2 + Len(FindAll(v, {"img"})) * 3, 1))
      pen == LinkPenalty(raw, v, IF text_len > 1 THEN text_len ELSE 1)
  IN IF v.tag = "article" THEN RMul(pen, Rat(3, 2)) ELSE pen

RECURSIVE ScanBest(_, _, _)
\* one priority's loop: elements long enough, a strictly higher score wins
ScanBest(a, list, best) ==
  IF list = <<>> THEN best
  ELSE LET v == Ser(a, Head(list))
       IN IF TextLen(v) >= MinTextLength /\ RGt(ScoreArticle(v), best.score)
          THEN ScanBest(a, Tail(list), [score |-> ScoreArticle(v), cont |-> Head(list)])
          ELSE ScanBest(a, Tail(list), best)

\* `if not best_article or best_article_score < 30`
NeedMore(best) == best.cont = NoParent \/ RGt(Rat(30, 1), best.score)

HasRole(a, e, role) == Nd(a, e).attrs["role"] = <<role>>
MatchesContent(a, e) ==
  \/ HasAnyKey(Nd(a, e).attrs["id"], ContentPatterns)
  \/ HasAnyKey(Nd(a, e).attrs["class"], ContentPatterns)

\* priority 4: content-pattern div/section with a heading or a paragraph
PatternBlocks(a) ==
  SelectSeq(FindIds(a, Root, {"div", "section"}),
            LAMBDA e : /\ MatchesContent(a, e)
                       /\ \/ FindAll(Ser(a, e), HeadingTags) # <<>>
                          \/ PCount(Ser(a, e)) >= 1)

\* _find_article_container (stable): the best container, or NoParent
StableFindArticleContainer(a) ==
  LET all == IdsBelow(a, Root)
      b1 == ScanBest(a, FindIds(a, Root, {"article"}), [score |-> RZero, cont |-> NoParent])
      b2 == IF NeedMore(b1) THEN ScanBest(a, FindIds(a, Root, {"main"}), b1) ELSE b1
      b3 == IF NeedMore(b2)
            THEN ScanBest(a, SelectSeq(all, LAMBDA e : HasRole(a, e, "article")),
                          ScanBest(a, SelectSeq(all, LAMBDA e : HasRole(a, e, "main")), b2))
            ELSE b2
      b4 == IF NeedMore(b3) THEN ScanBest(a, PatternBlocks(a), b3) ELSE b3
  IN b4.cont

(***************************************************************************)
(* content_extractor_stable.py: extract, strategies 1, 2 and the fallback  *)
(***************************************************************************)
\* the article built from the first h1 and the container without its h1s
HeadlineMerge(a, h1, e) ==
  Ec("article", "extracted-content",
     <<Ser(a, h1)>> \o SelectSeq(DropH1(Norm(<<Ser(a, e)>>)), IsTag))

\* strategy 2's candidates: articles with an h1, else div/section with an h1
\* and two paragraphs
Strategy2Candidates(a) ==
  LET long(e) == TextLen(Ser(a, e)) >= MinTextLength
      withH1(e) == FindIds(a, e, {"h1"}) # <<>>
      arts == SelectSeq(FindIds(a, Root, {"article"}), LAMBDA e : withH1(e) /\ long(e))
  IN IF arts # <<>> THEN arts
     ELSE SelectSeq(FindIds(a, Root, {"div", "section"}),
                    LAMBDA e : withH1(e) /\ long(e) /\ PCount(Ser(a, e)) >= 2)

\* strategy 2's score of a candidate
CandidateScore(a, e) ==
  LET v == Ser(a, e)
      raw == RAdd(RMin(Rat(TextLen(v), 500), Rat(20, 1)),
                  Rat(PCount(v) * 2 + Len(FindAll(v, {"img"})) * 3
                      + (IF HasAnyKey(v.attrs["id"], ContentPatterns) THEN 10 ELSE 0)
                      + (IF HasAnyKey(v.attrs["class"], ContentPatterns) THEN 10 ELSE 0), 1))
  IN LinkPenalty(raw, v, TextLen(v))

RECURSIVE BestCandidate(_, _, _)
BestCandidate(a, list, best) ==
  IF list = <<>> THEN best
  ELSE IF RGt(CandidateScore(a, Head(list)), best.score)
       THEN BestCandidate(a, Tail(list), [score |-> CandidateScore(a, Head(list)), cont |-> Head(list)])
       ELSE BestCandidate(a, Tail(list), best)

\* the fallback: the first main/div/section with exactly one h1, enough text
\* and two paragraphs; NoParent when there is none
SingleH1Fallback(a) ==
  LET ok == SelectSeq(FindIds(a, Root, {"main", "div", "section"}),
                      LAMBDA e : /\ Len(FindIds(a, e, {"h1"})) = 1
                                 /\ TextLen(Ser(a, e)) >= MinTextLength
                                 /\ PCount(Ser(a, e)) >= 2)
  IN IF ok = <<>> THEN NoParent ELSE ok[1]

(***************************************************************************)
(* Input documents                                                         *)
(***************************************************************************)
\* bodies hold 0..MaxParas paragraphs
MaxParas == 5

ParaTok(k) == <<"Para1", "Para2", "Para3", "Para4", "Para5", "Para6">>[k]
Paras(k) == [j \in 1..k |-> P(ParaTok(j))]
Ws == T("ws")
Byline == Ec("p", "byline", <<T("ByJaneDoe")>>)
H1(tok) == E("h1", <<T(tok)>>)
Button == E("button", <<T("Go")>>)

\* where the headline is, outside the body container
HeaderParts ==
  { <<>>,                                                               \* no h1 here
    <<H1("Title")>>,                                                    \* bare h1
    <<H1("Title"), Ec("span", "author", <<T("ByJaneDoe")>>), P("Subtitle")>>,
    <<E("header", <<H1("Title"), Byline>>)>>,                           \* no white space
    <<E("header", <<Ws, H1("Title"), Ws, Byline, Ws>>)>>,
    <<E("header", <<Ws, H1("Title"), Ws, H1("Other"), Ws>>)>>,          \* two headlines
    <<E("header", <<Ws, H1("Title"), Ws, P("Para1"), Ws>>)>>,           \* subtitle = 1st paragraph
    <<E("header", <<Ws, H1("RelatedArticles"), Ws, Byline, Ws>>)>>,
    <<E("header", <<Ws, H1("Title"), Ws, Button, Ws>>)>>,
    <<Ec("div", "page-title", <<H1("Title"), Byline>>)>> }

\* a list the cleaner removes by its class, with an item below it
ListBox(cls, tok) == Ec("ul", cls, <<E("li", <<T(tok)>>)>>)
\* an image that comes with its own size
SizedImg == El("img", [NoAttrs EXCEPT !["src"] = <<"a.png">>, !["width"] = <<"640">>,
                                      !["sizes"] = <<"100vw">>], <<>>)
Picture == E("picture", <<El("source", [NoAttrs EXCEPT !["src"] = <<"b.png">>], <<>>)>>)

\* what follows the paragraphs inside the body container
BodyTails ==
  { <<>>,
    <<E("p", <<>>)>>,                                                   \* an empty paragraph
    <<P("Para1")>>,                                                     \* a repeated paragraph
    <<ListBox("share-bar", "Share"), ListBox("related-posts", "More")>>,
    <<SizedImg, Picture, Ec("details", "share-bar", <<P("Mid")>>)>>,
    <<E("div", <<E("div", <<P("Mid")>>)>>), E("div", <<E("p", <<>>)>>)>> }

BodyOf(tag, cls, k, tail) ==
  IF cls = "" THEN E(tag, Paras(k) \o tail) ELSE Ec(tag, cls, Paras(k) \o tail)

Reply == E("div", <<T("Reply")>>)

BodyParts ==
  { <<BodyOf("article", "", k, tail)>> : k \in 0..MaxParas, tail \in BodyTails }
  \cup { <<BodyOf("div", "content", k, <<>>)>> : k \in {2, 5} }
  \cup { <<E("main", <<E("div", <<BodyOf("div", "story", 3, <<>>)>>)>>)>> }
  \* the headline inside the container, at its top
  \cup { <<E("article", <<H1("Title")>> \o Paras(k))>> : k \in {1, 2, 3} }
  \* the headline inside the container, below four blocks
  \cup { <<E("article", <<Reply, Reply, Reply, Reply, H1("Title")>> \o Paras(k))>> :
           k \in {0, MaxParas} }
  \* the headline below two blocks
  \cup { <<E("article", <<Reply, Reply, H1("Title")>> \o Paras(3))>> }
  \* containers no content pattern names
  \cup { <<Ec("div", "wrapper", <<H1("Title")>> \o Paras(2))>>,
         <<Ec("div", "wrapper",
              <<H1("Other"), Ec("div", "wrapper", <<H1("Title")>> \o Paras(2))>>)>> }

Links(n) == [j \in 1..n |-> E("li", <<A("Link")>>)]
Nav == E("nav", <<E("ul", Links(10))>>)
Aside == E("aside", <<E("h3", <<T("RelatedArticles")>>), E("ul", Links(3))>>)
Chrome == { <<>>, <<Nav, Aside>> }

Page(chrome, head, body) ==
  <<E("html", <<E("body", chrome \o head \o body)>>)>>

\* headline regions met with one body only
LinkedHeaders ==
  { <<E("header", <<H1("Title"), A("Link"), A("Link")>>)>>,            \* two links beside the h1
    <<E("h1", <<A("Title")>>)>>,                                        \* the headline is a link
    <<H1("Title"), E("p", <<T("Subtitle"), A("Link")>>)>>,              \* a link inside a paragraph
    <<Ec("span", "topic", <<T("World")>>), H1("Title"), Byline>>,       \* a topic label first
    <<E("header", <<Ws, H1("Title"), Ws, E("figure", <<Img("a.png")>>), Ws,
                    E("figure", <<Img("b.png")>>), Ws>>)>>,             \* two figures
    <<Ec("div", "hero", <<H1("Title"), Byline>>)>> }

\* whole pages with a layout of their own
LayoutPages ==
  { \* a short article with the headline inside a longer main
    Page(<<>>, <<>>, <<E("main", <<E("article", <<H1("Title"), P("Para1")>>),
                                   P("Para2"), P("Para3"), P("Para4"), P("Para5"),
                                   Img("a.png"), Img("b.png")>>)>>),
    \* a section that holds a subheading only
    Page(<<>>, <<H1("Title")>>,
         <<E("article", <<P("Para1"), E("section", <<E("h2", <<T("Subtitle")>>)>>),
                          P("Para2"), P("Para3")>>)>>),
    \* an image in a figure in a div
    Page(<<>>, <<H1("Title")>>,
         <<E("article", <<P("Para1"), E("div", <<E("figure", <<Img("a.png")>>)>>),
                          P("Para2"), P("Para3")>>)>>),
    \* a wrapper with a line of its own around the block that holds the text
    Page(<<>>, <<H1("Title")>>,
         <<E("article", <<P("Para1"), P("Para2"),
                          Ec("section", "story", <<T("Subtitle"), E("div", <<P("Para3")>>)>>)>>)>>) }

Documents ==
  { Page(c, h, b) : c \in Chrome, h \in HeaderParts, b \in BodyParts }
  \cup { Page(<<>>, h, <<BodyOf("article", "", 3, <<>>)>>) : h \in LinkedHeaders }
  \cup LayoutPages

\* '<h1' in str(forest): a serialized tree names its h1 elements in lower case
HasH1(forest) == \E k \in 1..Len(forest) : forest[k].tag = "h1" \/ FindAll(forest[k], {"h1"}) # <<>>

\* the number of elements of a soup
ElementCount(a) == Len(IdsBelow(a, Root))

(***************************************************************************)
(* ContentExtractorV3.extract of both files as a state machine             *)
(***************************************************************************)
VARIABLES
  variant,  \* which file's extractor runs: "v3" or "stable"
  raises,   \* the library raises on str() of a destroyed element
  html,     \* the input document, as the forest its text denotes
  lit,      \* '<h1' in html
  pc,       \* the statement extract is at
  soup,     \* the parsed document
  header,   \* header_container (v3)
  article,  \* article_container of strategy 1 (stable)
  complete, \* what _is_complete_article said of it (stable)
  body,     \* the container whose content is emitted
  path,     \* the return statement that emitted it
  merged,   \* the string handed to _clean_extracted_content
  cs,       \* the soup of _clean_extracted_content
  count0,   \* elements of cs when the loop started
  before,   \* elements of cs before the last pass
  removed,  \* what the last clean_pass returned
  passes,   \* clean passes made
  out       \* the return value; the empty forest is the empty string

vars == <<variant, raises, html, lit, pc, soup, header, article, complete, body, path,
          merged, cs, count0, before, removed, passes, out>>

EmptySoup == [nodes |-> <<>>, top |-> <<>>]

Init ==
  /\ variant \in {"v3", "stable"}
  /\ raises \in BOOLEAN
  /\ html \in Documents
  /\ lit \in BOOLEAN
  /\ pc = "start"
  /\ soup = EmptySoup
  /\ header = NoneNode
  /\ article = NoParent
  /\ complete = FALSE
  /\ body = NoParent
  /\ path = "none"
  /\ merged = NoneNode
  /\ cs = EmptySoup
  /\ count0 = 0
  /\ before = 0
  /\ removed = 0
  /\ passes = 0
  /\ out = <<>>

\* a return of the input where extract returns ""
ReturnInput == pc' = "done" /\ out' = html

\* return ""
ReturnEmpty == pc' = "done" /\ out' = <<>>

\* return self._clean_extracted_content(content)
Emit(how, content) == pc' = "merged" /\ path' = how /\ merged' = content /\ out' = out

\* if '<h1' not in html: return ""; else parse
QuickCheck ==
  /\ pc = "start"
  /\ IF lit
     THEN /\ soup' = Parse(html)
          /\ pc' = "parsed"
          /\ out' = out
     ELSE /\ ReturnEmpty
          /\ soup' = soup
  /\ UNCHANGED <<variant, raises, html, lit, header, article, complete, body, path,
                 merged, cs, count0, before, removed, passes>>

RemoveNoiseStep ==
  /\ pc = "parsed"
  /\ soup' = RemoveNoise(soup)
  /\ pc' = "denoised"
  /\ UNCHANGED <<variant, raises, html, lit, header, article, complete, body, path,
                 merged, cs, count0, before, removed, passes, out>>

\* a header locator that lets the run go on without a header
FindHeaderOn ==
  /\ pc = "denoised"
  /\ variant = "v3"
  /\ header' = FindH1Container(soup)
  /\ pc' = "headed" /\ out' = out
  /\ UNCHANGED <<variant, raises, html, lit, soup, article, complete, body, path,
                 merged, cs, count0, before, removed, passes>>

FindHeader ==
  /\ pc = "denoised"
  /\ variant = "v3"
  /\ header' = FindH1Container(soup)
  /\ IF header' = NoneNode THEN ReturnEmpty ELSE pc' = "headed" /\ out' = out
  /\ UNCHANGED <<variant, raises, html, lit, soup, article, complete, body, path,
                 merged, cs, count0, before, removed, passes>>

\* _find_article_container, then the paragraph count of the container
FindBody ==
  /\ pc = "headed"
  /\ body' = FindArticleContainer(soup)
  /\ IF body' = NoParent \/ PCount(Ser(soup, body')) < MinParagraphCount
     THEN ReturnEmpty
     ELSE pc' = "located" /\ out' = out
  /\ UNCHANGED <<variant, raises, html, lit, soup, header, article, complete, path,
                 merged, cs, count0, before, removed, passes>>

Merge ==
  /\ pc = "located"
  /\ Emit("v3", MergeContent(header, Ser(soup, body)))
  /\ UNCHANGED <<variant, raises, html, lit, soup, header, article, complete, body,
                 cs, count0, before, removed, passes>>

\* a handler that emits the merge it was to replace
MergeRaisesKept ==
  /\ pc = "located"
  /\ Emit("bodyonly", MergeContent(header, Ser(soup, body)))
  /\ UNCHANGED <<variant, raises, html, lit, soup, header, article, complete, body,
                 cs, count0, before, removed, passes>>

\* the merge raises (the environment's doing: recursion depth, memory):
\* except Exception: return self._clean_extracted_content(str(body_container))
MergeRaises ==
  /\ pc = "located"
  /\ Emit("bodyonly", Ser(soup, body))
  /\ UNCHANGED <<variant, raises, html, lit, soup, header, article, complete, body,
                 cs, count0, before, removed, passes>>

\* stable, strategy 1: the semantic container, as it is when complete, else
\* under the document's first h1
Strategy1 ==
  /\ pc = "denoised"
  /\ variant = "stable"
  /\ article' = StableFindArticleContainer(soup)
  /\ complete' = (article' # NoParent /\ IsCompleteArticle(soup, article'))
  /\ LET h1s == FindIds(soup, Root, {"h1"})
     IN IF complete'
        THEN Emit("complete", Ser(soup, article')) /\ body' = article'
        ELSE IF article' # NoParent /\ h1s # <<>>
        THEN Emit("headline", HeadlineMerge(soup, h1s[1], article')) /\ body' = article'
        ELSE /\ pc' = "strategy2"
             /\ UNCHANGED <<body, path, merged, out>>
  /\ UNCHANGED <<variant, raises, html, lit, soup, header, cs, count0, before,
                 removed, passes>>

\* stable, strategy 2: the best scored candidate, if it has exactly one h1
Strategy2 ==
  /\ pc = "strategy2"
  /\ LET best == BestCandidate(soup, Strategy2Candidates(soup),
                               [score |-> RZero, cont |-> NoParent])
     IN IF best.cont # NoParent /\ Len(FindIds(soup, best.cont, {"h1"})) = 1
        THEN Emit("candidate", Ser(soup, best.cont)) /\ body' = best.cont
        ELSE /\ pc' = "fallback"
             /\ UNCHANGED <<body, path, merged, out>>
  /\ UNCHANGED <<variant, raises, html, lit, soup, header, article, complete, cs,
                 count0, before, removed, passes>>

\* stable, fallback: the first container with a single h1
Fallback ==
  /\ pc = "fallback"
  /\ LET f == SingleH1Fallback(soup)
     IN IF f # NoParent
        THEN Emit("fallback", Ser(soup, f)) /\ body' = f
        ELSE ReturnEmpty /\ UNCHANGED <<body, path, merged>>
  /\ UNCHANGED <<variant, raises, html, lit, soup, header, article, complete, cs,
                 count0, before, removed, passes>>

\* _clean_extracted_content up to its loop
CleanBegin ==
  /\ pc = "merged"
  /\ IF HasH1(<<merged>>)
     THEN /\ cs' = Parse(<<merged>>)
          /\ pc' = "cleaning"
          /\ out' = out
     ELSE /\ ReturnEmpty
          /\ cs' = cs
  /\ count0' = ElementCount(cs')
  /\ UNCHANGED <<variant, raises, html, lit, soup, header, article, complete, body,
                 path, merged, before, removed, passes>>

\* one turn of `while True: removed = clean_pass(); if removed == 0: break`
CleanPassStep ==
  /\ pc = "cleaning"
  /\ LET r == CleanPass(cs, raises, variant)
     IN /\ cs' = r.soup
        /\ removed' = r.removed
        /\ pc' = IF r.removed = 0 THEN "cleaned" ELSE "cleaning"
  /\ before' = ElementCount(cs)
  /\ passes' = passes + 1
  /\ UNCHANGED <<variant, raises, html, lit, soup, header, article, complete, body,
                 path, merged, count0, out>>

Standardize ==
  /\ pc = "cleaned"
  /\ cs' = StandardizeMediaDimensions(cs)
  /\ out' = SerTop(cs')
  /\ pc' = "done"
  /\ UNCHANGED <<variant, raises, html, lit, soup, header, article, complete, body,
                 path, merged, count0, before, removed, passes>>

Next ==
  \/ QuickCheck
  \/ RemoveNoiseStep
  \/ FindHeader
  \/ FindBody
  \/ Merge
  \/ MergeRaises
  \/ Strategy1
  \/ Strategy2
  \/ Fallback
  \/ CleanBegin
  \/ CleanPassStep
  \/ Standardize

Spec == Init /\ [][Next]_vars


(***************************************************************************)
(* Properties                                                              *)
(***************************************************************************)
\* the elements of the output with one of the given tags, in document order
OutElems(tags) == SelectSeq(DescKids(out), LAMBDA e : e.tag \in tags)
OutTexts == SeqToSet(TextKids(out))
Emitted == pc = "done" /\ out # <<>>

\* C1: a document whose tree has no h1 element never reaches the cleaner and
\* yields the empty string, also when a body container would qualify
C1_NoHeadlineNoOutput ==
  ~HasH1(html) => out = <<>> /\ pc \notin {"located", "merged", "cleaning", "cleaned"}

\* C1 reached: a run to the end on a document without h1 that mentions '<h1',
\* whose semantic container has three paragraphs
C1_Reached ==
  /\ pc = "done" /\ ~HasH1(html) /\ lit
  /\ article # NoParent /\ PCount(Ser(soup, article)) >= MinParagraphCount

\* C2: every non-empty output holds exactly one h1
C2_ExactlyOneH1 == Emitted => Len(OutElems({"h1"})) = 1

\* C3: every non-empty output holds at least min_paragraph_count paragraphs
C3_ParagraphFloor == Emitted => Len(OutElems({"p"})) >= MinParagraphCount

\* C4: in a non-empty output no two p/heading elements with text have the
\* same text
C4_NoDuplicateText ==
  Emitted =>
    LET els == OutElems({"p"} \cup HeadingTags)
    IN \A i, j \in 1..Len(els) :
         i < j /\ GetText(els[i]) # <<>> => GetText(els[i]) # GetText(els[j])

\* C5: the tree the cleaning loop stops on is a fixpoint of clean_pass: one
\* more pass returns zero and leaves the tree as it is
C5_StopsOnFixpoint ==
  pc = "cleaned" =>
    LET r == CleanPass(cs, raises, variant)
    IN r.removed = 0 /\ SerTop(r.soup) = SerTop(cs)

\* C6: a pass that returns a non-zero count leaves strictly fewer elements
\* than it found, and the loop makes at most (initial elements + 1) passes
C6_PassesShrink ==
  /\ passes > 0 /\ removed > 0 => ElementCount(cs) < before
  /\ passes <= count0 + 1

\* C6 reached: a second pass in a row that removed something
C6_Reached == pc = "cleaning" /\ passes >= 2 /\ removed > 0 /\ ElementCount(cs) < before

\* C7: every img and picture of a non-empty output has width and height "256"
C7_MediaSized ==
  Emitted =>
    LET els == OutElems({"img", "picture"})
    IN \A k \in 1..Len(els) :
         els[k].attrs["width"] = <<"256">> /\ els[k].attrs["height"] = <<"256">>

\* C7 reached: an output with an img that came with width 640 and a picture
C7_Reached ==
  /\ Emitted
  /\ OutElems({"img"}) # <<>> /\ OutElems({"picture"}) # <<>>
  /\ \E k \in 1..Len(DescKids(html)) :
       DescKids(html)[k].tag = "img" /\ DescKids(html)[k].attrs["width"] = <<"640">>

\* the document of C8: h1 "Title" and byline in a header, a body div of five
\* paragraphs, a nav of ten links and an aside of three
WorkedExample ==
  Page(<<Nav, Aside>>, <<E("header", <<Ws, H1("Title"), Ws, Byline, Ws>>)>>,
       <<BodyOf("div", "content", 5, <<>>)>>)

\* C8: on that document the output holds the h1, the byline and the five
\* paragraphs, and neither the nav nor the aside
C8_WorkedExample ==
  pc = "done" /\ lit /\ html = WorkedExample =>
    /\ out # <<>>
    /\ Len(OutElems({"h1"})) >= 1
    /\ {"Title", "ByJaneDoe", "Para1", "Para2", "Para3", "Para4", "Para5"} \subseteq OutTexts
    /\ OutElems({"nav", "aside"}) = <<>>
    /\ "Link" \notin OutTexts

\* C9: when the container the pipeline selected has fewer than
\* min_paragraph_count paragraphs, the output is empty
C9_ThinBodyRejected ==
  pc = "done" /\ body # NoParent /\ PCount(Ser(soup, body)) < MinParagraphCount
    => out = <<>>

RECURSIVE FirstH1Blocks(_, _)
\* p/div/section siblings before the first h1 below a child list; -1 without h1
FirstH1Blocks(kids, i) ==
  IF i > Len(kids) THEN -1
  ELSE IF kids[i].tag = "h1"
  THEN Cardinality({j \in 1..(i - 1) : kids[j].tag \in {"p", "div", "section"}})
  ELSE LET d == FirstH1Blocks(kids[i].kids, 1)
       IN IF d # -1 THEN d ELSE FirstH1Blocks(kids, i + 1)

\* C10: the container of strategy 1 is complete exactly when it has an h1,
\* at most two p/div/section siblings before its first h1, three paragraphs
\* and 300 characters; with four blocks before the h1 it is never complete
C10_CompleteArticle ==
  pc \notin {"start", "parsed", "denoised"} /\ article # NoParent =>
    LET v == Ser(soup, article)
        blocks == FirstH1Blocks(v.kids, 1)
    IN /\ complete <=> /\ blocks \in {0, 1, 2}
                       /\ Len(FindAll(v, {"p"})) >= 3
                       /\ SumLen(GetText(v)) >= 300
       /\ blocks = 4 => ~complete

\* C10 reached: a container with paragraphs and text enough whose h1 lies
\* below four blocks, found incomplete
C10_Reached ==
  /\ article # NoParent /\ pc = "done" /\ ~complete
  /\ FirstH1Blocks(Ser(soup, article).kids, 1) = 4
  /\ PCount(Ser(soup, article)) >= 3 /\ TextLen(Ser(soup, article)) >= 300


\* the statements of v3's extract in the order of its stages: parse and
\* NoiseFilter, HeaderLocator, BodyLocator, Merger, FixpointCleaner,
\* MediaNormalizer; every stage may return
StageOrder ==
  { <<"start", "parsed">>, <<"parsed", "denoised">>, <<"denoised", "headed">>,
    <<"headed", "located">>, <<"located", "merged">>, <<"merged", "cleaning">>,
    <<"cleaning", "cleaning">>, <<"cleaning", "cleaned">>, <<"cleaned", "done">>,
    <<"start", "done">>, <<"denoised", "done">>, <<"headed", "done">>,
    <<"merged", "done">> }

\* C11: v3 runs its stages in order, and a header locator or body locator
\* that finds nothing ends the run at once with the empty string
C11_StagesInOrder ==
  [][variant = "v3" =>
       /\ <<pc, pc'>> \in StageOrder
       /\ pc = "denoised" /\ header' = NoneNode => pc' = "done" /\ out' = <<>>
       /\ pc = "headed" /\ body' = NoParent => pc' = "done" /\ out' = <<>>
       /\ pc' = "headed" => header' # NoneNode
       /\ pc' = "located" => body' # NoParent]_vars

\* C11 reached: a run that found a header and no body, and ended empty
C11_Reached ==
  /\ variant = "v3" /\ pc = "done" /\ lit
  /\ header # NoneNode /\ body = NoParent /\ out = <<>> /\ cs = EmptySoup


\* C12: when the merge raises, extract returns the cleaning of the body
\* container alone: what is cleaned is the container the body locator
\* selected, as it was, and without an h1 in it the result is empty
C12_MergeErrorFallback ==
  path = "bodyonly" =>
    /\ body = FindArticleContainer(soup)
    /\ merged = Ser(soup, body)
    /\ pc = "cleaning" /\ passes = 0 => cs = Parse(<<merged>>)
    /\ pc = "done" /\ ~HasH1(<<merged>>) => out = <<>>

\* C12 reached: a failed merge whose body container, holding the h1 and a
\* header above it, was cleaned and returned
C12_Reached ==
  /\ pc = "done" /\ path = "bodyonly" /\ out # <<>>
  /\ merged # MergeContent(header, Ser(soup, body))


\* C13: a non-empty output has one top-level element, an article, and holds
\* no html and no body element
C13_ArticleRoot ==
  Emitted =>
    /\ Len(out) = 1 /\ out[1].tag = "article"
    /\ OutElems({"html", "body"}) = <<>>


\* C14: an error on one element does not abort a cleaning pass: what the
\* pass removed before the error is still in the count it returns
C14_ErrorsIsolated ==
  pc \in {"cleaning", "cleaned"} /\ passes > 0 /\ ElementCount(cs) < before
    => removed > 0


\* the soup a pass hands to its noise-removal loop, and the soup that loop leaves
BeforeNoise(a) == StructureLoop(a, FindIds(a, Root, {"div", "section"}), 0).soup
AfterNoise(a) == NoiseLoop(BeforeNoise(a), IdsBelow(BeforeNoise(a), Root), 0, raises, variant).soup
\* the elements the noise-removal loop deleted: destroyed, their parent not
DeletedByNoise(a) ==
  { e \in SeqToSet(IdsBelow(BeforeNoise(a), Root)) :
      /\ Destroyed(AfterNoise(a), e)
      /\ \/ Par(BeforeNoise(a), e) = Root
         \/ ~Destroyed(AfterNoise(a), Par(BeforeNoise(a), e)) }

\* C15: the noise-removal loop of a pass deletes no element that holds an h1
\* and no html, body, p or article element
C15_NoiseStepSpares ==
  pc = "cleaning" =>
    \A e \in DeletedByNoise(cs) :
      /\ FindIds(BeforeNoise(cs), e, {"h1"}) = <<>>
      /\ TagOf(BeforeNoise(cs), e) \notin {"html", "body", "p", "article"}


\* C16: the noise-removal loop of a pass loses no paragraph with text:
\* every such p of the tree it starts on is in the tree it leaves
C16_ParagraphsHoisted ==
  pc = "cleaning" =>
    \A e \in SeqToSet(FindIds(BeforeNoise(cs), Root, {"p"})) :
      GetText(Ser(BeforeNoise(cs), e)) # <<>> => ~Destroyed(AfterNoise(cs), e)


\* the text of every h1 of a forest, in document order
H1Texts(forest) ==
  LET h1s == SelectSeq(DescKids(forest), LAMBDA e : e.tag = "h1")
  IN [k \in 1..Len(h1s) |-> GetText(h1s[k])]

\* C17: after the noise filter every h1 of the parsed tree is in the tree
\* with the text it had
C17_HeadlineSurvivesNoise ==
  pc = "denoised" => H1Texts(SerTop(soup)) = H1Texts(html)


\* the h1 elements of a tree and their direct parents
Marked(a) ==
  LET h1s == SeqToSet(FindIds(a, Root, {"h1"}))
  IN h1s \cup {Par(a, h) : h \in h1s}

\* e is, holds, or lies inside a marked element
Exempt(a, e) ==
  \/ e \in Marked(a)
  \/ SeqToSet(IdsBelow(a, e)) \cap Marked(a) # {}
  \/ SeqToSet(Parents(a, e)) \cap Marked(a) # {}

\* C18: the noise filter collects a header, footer, aside or nav element for
\* removal exactly when it is not protected, holds no protected element and
\* lies in no protected element, and the collected ones are removed
C18_ChromeRemovedUnlessExempt ==
  pc = "denoised" =>
    \A e \in SeqToSet(FindIds(Parse(html), Root, {"header", "footer", "aside", "nav"})) :
      /\ e \in SeqToSet(NoiseTagged(Parse(html), ProtectedElements(Parse(html))))
           <=> ~Exempt(Parse(html), e)
      /\ ~Exempt(Parse(html), e) => Destroyed(soup, e)


\* an anchor the link rule acts on: it has an href, or a target of _self or _blank
Targeted(a, l) ==
  \/ Nd(a, l).attrs["href"] # <<>>
  \/ Nd(a, l).attrs["target"] \in {<<"_self">>, <<"_blank">>}

\* e is gone although nothing above it is, and no other rule collected it
GoneByLinkRule(a, after, e) ==
  /\ Destroyed(after, e)
  /\ \A q \in SeqToSet(Parents(a, e)) : ~Destroyed(after, q)
  /\ e \notin SeqToSet(NoiseTagged(a, ProtectedElements(a)) \o AudioLike(a, ProtectedElements(a)))

\* C19: after the noise filter no unprotected anchor with an href or a
\* _self/_blank target is left; an anchor inside a paragraph gave way to its
\* text and the paragraph stayed; otherwise the anchor's parent was removed
\* when it is neither protected nor structural, and in the remaining case
\* the anchor alone was removed
C19_LinkRule ==
  pc = "denoised" =>
    LET a0 == Parse(html)
        links == { l \in SeqToSet(FindIds(a0, Root, {"a"})) : Targeted(a0, l) /\ l \notin Marked(a0) }
    IN \A l \in links :
         /\ Destroyed(soup, l) \/ l \notin SeqToSet(IdsBelow(soup, Root))
         /\ IF FindParent(a0, l, {"p"}) # NoParent
            THEN LET par == FindParent(a0, l, {"p"})
                 IN /\ ~GoneByLinkRule(a0, soup, par)
                    /\ ~Destroyed(soup, par) => GetText(Ser(soup, par)) = GetText(Ser(a0, par))
            ELSE IF Par(a0, l) \notin Marked(a0) /\ TagOf(a0, Par(a0, l)) \notin StructuralTags
            THEN Destroyed(soup, Par(a0, l))
            ELSE ~GoneByLinkRule(a0, soup, Par(a0, l))


\* the header and metadata keywords the locator's second step is said to match
HeaderWords == {"header", "headline", "title", "hero"}
MetadataWords == {"author", "byline", "date", "time", "published", "tag",
                  "category", "share", "social"}
NamedLikeHeader(a, p) ==
  /\ TagOf(a, p) \in {"div", "section"}
  /\ \/ HasAnyKey(Nd(a, p).attrs["class"], HeaderWords \cup MetadataWords)
     \/ HasAnyKey(Nd(a, p).attrs["id"], HeaderWords \cup MetadataWords)

\* C20: the header locator returns the nearest header ancestor of the first
\* h1; failing that the nearest div or section ancestor below body whose
\* class or id holds a header or metadata keyword; and a synthesized header
\* only when there is neither
C20_HeaderLocatorSteps ==
  variant = "v3" /\ pc = "headed" =>
    LET h1 == FindIds(soup, Root, {"h1"})[1]
        hdr == FindParent(soup, h1, {"header"})
        like == SelectSeq(UpToBody(soup, Parents(soup, h1)), LAMBDA p : NamedLikeHeader(soup, p))
    IN IF hdr # NoParent THEN header = Ser(soup, hdr)
       ELSE IF like # <<>> THEN header = Ser(soup, like[1])
       ELSE header.attrs["class"] = <<"extracted-header">>


\* an element whose class or visible text holds a metadata keyword
NamedMetadata(v) ==
  IsTag(v) /\ (\/ HasAnyKey(v.attrs["class"], MetadataWords)
               \/ HasAnyKey(GetText(v), MetadataWords))

RECURSIVE NamedNext(_)
\* the next siblings that hold a metadata keyword, up to the first p or div
\* that holds none
NamedNext(sibs) ==
  IF sibs = <<>> THEN <<>>
  ELSE IF NamedMetadata(Head(sibs)) THEN <<Head(sibs)>> \o NamedNext(Tail(sibs))
  ELSE IF Head(sibs).tag \in {"p", "div"} THEN <<>>
  ELSE NamedNext(Tail(sibs))

\* C21: a synthesized header holds the first h1 once, after copies of its
\* previous siblings that match the metadata pattern and before copies of
\* the matching next siblings up to the first p or div that does not match,
\* all in document order, and the tree is left as the noise filter left it
C21_SynthesizedHeader ==
  variant = "v3" /\ pc = "headed" /\ header.attrs["class"] = <<"extracted-header">> =>
    LET h1 == FindIds(soup, Root, {"h1"})[1]
        sibs == SelectSeq(Kids(soup, Par(soup, h1)), LAMBDA j : IsElem(soup, j))
        k == IndexOf(sibs, h1)
        prev == SelectSeq([j \in 1..(k - 1) |-> Ser(soup, sibs[j])], NamedMetadata)
        next == NamedNext([j \in 1..(Len(sibs) - k) |-> Ser(soup, sibs[k + j])])
    IN /\ header.kids = prev \o <<Ser(soup, h1)>> \o next
       /\ soup = RemoveNoise(Parse(html))


\* the seeds of the second round as stated: every article, every main and
\* every div or section whose class or id matches the content pattern
ContentSeeds(a) ==
  SelectSeq(IdsBelow(a, Root),
            LAMBDA e : \/ TagOf(a, e) \in {"article", "main"}
                       \/ TagOf(a, e) \in {"div", "section"} /\ MatchesContent(a, e))

\* the body container that scoring from those seeds selects
SeededContainer(a) ==
  LET first == ScoredSeeds(a, SelectSeq(ElemKidIds(a, Root),
                                  LAMBDA e : TagOf(a, e) \in {"article", "main"}))
      cands == IF first # <<>> THEN first ELSE ScoredSeeds(a, ContentSeeds(a))
      good == SelectSeq(cands, LAMBDA r : MeetsMinimum(a, r))
  IN IF good = <<>> THEN NoParent ELSE MaxByScore(Tail(good), Head(good)).cont

\* C22: the body container is the one that recursive scoring selects when it
\* is seeded from the root-level article/main elements and, if none of them
\* scores, from every article, main and content-pattern div/section
C22_SeedsIncludeContentBlocks ==
  variant = "v3" /\ header # NoneNode
    /\ pc \in {"located", "merged", "cleaning", "cleaned", "done"}
    => body = SeededContainer(soup)


\* the direct div/article/main/section children of e
ContentChildren(a, e) ==
  {c \in SeqToSet(ElemKidIds(a, e)) : TagOf(a, c) \in {"div", "article", "main", "section"}}

\* the highest score returned for a content child of e, zero without one
ChildScore(a, e) ==
  LET S == {ScoreContainer(a, c).score : c \in ContentChildren(a, e)}
  IN IF S = {} THEN RZero ELSE CHOOSE x \in S : \A y \in S : ~RGt(y, x)

Pool(a) ==
  { e \in SeqToSet(IdsBelow(a, Root)) :
      /\ IsElem(a, e)
      /\ \/ TagOf(a, e) \in {"article", "main"}
         \/ HasRole(a, e, "main") \/ HasRole(a, e, "article")
         \/ TagOf(a, e) \in {"div", "section"} /\ MatchesContent(a, e) }

\* C24: no candidate of the pool that is long enough scores strictly higher
\* than the container direct scoring returned
C24_MaximumOfPool ==
  variant = "stable" /\ pc \notin {"start", "parsed", "denoised"} /\ soup # EmptySoup =>
    \A e \in Pool(soup) :
      TextLen(Ser(soup, e)) >= MinTextLength =>
        ~RGt(ScoreArticle(Ser(soup, e)),
             IF article = NoParent THEN RZero ELSE ScoreArticle(Ser(soup, article)))


MediaTags == {"img", "picture", "figure"}

\* the src values of a media element: its own and, for a figure, those of
\* the imgs nested in it
Srcs(m) ==
  (IF HasAttr(m, "src") THEN {m.attrs["src"]} ELSE {})
  \cup (IF m.tag = "figure" THEN {i.attrs["src"] : i \in SeqToSet(FindAll(m, {"img"}))} ELSE {})

\* the element children of a header element that the merge walks one by one
Walked == IF header.tag = "header" THEN ElemKids(Norm(<<header>>)[1]) ELSE <<>>

\* C25: the merge skips an img, picture or figure only when one of its src
\* values was recorded for an earlier element; a media element that shares no
\* src with an earlier one is in the merged container
C25_MediaSkippedOnlyOnSeenSrc ==
  path = "v3" /\ pc = "merged" =>
    \A k \in 1..Len(Walked) :
      (/\ Walked[k].tag \in MediaTags
       /\ \A j \in 1..(k - 1) :
            Walked[j].tag \in MediaTags => Srcs(Walked[j]) \cap Srcs(Walked[k]) = {})
      => Walked[k] \in SeqToSet(FindAll(merged, MediaTags))


RECURSIVE Survivors(_, _)
\* the element children that are no duplicates: a p or heading is one when
\* its text was met before
Survivors(kids, seen) ==
  IF kids = <<>> THEN <<>>
  ELSE IF Head(kids).tag \in {"p"} \cup HeadingTags
  THEN IF GetText(Head(kids)) \in seen THEN Survivors(Tail(kids), seen)
       ELSE <<Head(kids)>> \o Survivors(Tail(kids), seen \cup {GetText(Head(kids))})
  ELSE <<Head(kids)>> \o Survivors(Tail(kids), seen)

\* C26: for a header element met by the merge (here one whose children are
\* neither media nor headers) a replacement header is emitted exactly when a
\* child is no duplicate, and it holds the non-duplicate children in order
C26_HeaderReplacement ==
  path = "v3" /\ pc = "merged" /\ header.tag = "header"
    /\ (\A k \in 1..Len(Walked) : Walked[k].tag \notin MediaTags \cup {"header"})
    => IF Survivors(Walked, {}) = <<>>
       THEN FindDirect(merged, {"header"}) = <<>>
       ELSE /\ FindDirect(merged, {"header"}) # <<>>
            /\ ElemKids(FindDirect(merged, {"header"})[1]) = Survivors(Walked, {})


\* C27: the first step of a pass deletes a div or section only when it has no
\* paragraph, no heading (h1 to h6) and no media below it, and every heading
\* is still in the tree after the step
C27_StructuralRemovalKeepsHeadings ==
  pc = "cleaning" =>
    /\ \A e \in SeqToSet(FindIds(cs, Root, {"div", "section"})) :
         Destroyed(BeforeNoise(cs), e) =>
           FindAll(Ser(cs, e), {"p", "img", "picture", "figure", "video"} \cup HeadingTags) = <<>>
    /\ \A h \in SeqToSet(FindIds(cs, Root, HeadingTags)) : ~Destroyed(BeforeNoise(cs), h)


\* C28: the strategies are tried in order: a complete candidate of direct
\* scoring is the body as it is; an incomplete one is never the body that is
\* emitted; the single-h1 fallback gives the first main, div or section with
\* one h1, enough text and two paragraphs
C28_OrderedFallbacks ==
  variant = "stable" /\ path # "none" =>
    /\ path = "complete" <=> complete
    /\ path = "complete" => body = article /\ merged = Ser(soup, article)
    /\ article # NoParent /\ ~complete => body # article
    /\ path = "fallback" => body = SingleH1Fallback(soup)


\* C29: every img that is in the merged tree when cleaning starts is in the
\* tree when the passes have stopped
C29_ImagesSurviveCleaning ==
  pc = "cleaned" =>
    \A i \in SeqToSet(FindIds(Parse(<<merged>>), Root, {"img"})) :
      ~Destroyed(cs, i) /\ i \in SeqToSet(IdsBelow(cs, Root))


\* the elements of a tree, in document order
Elements(a) == SelectSeq(IdsBelow(a, Root), LAMBDA e : IsElem(a, e))

\* a div or section that the first step replaces by its only element child
Collapses(a, e) ==
  /\ TagOf(a, e) \in {"div", "section"}
  /\ FindAll(Ser(a, e), {"p", "h1", "img", "picture", "figure", "video"}) # <<>>
  /\ FindDirect(Ser(a, e), {"p"}) = <<>>
  /\ Len(ElemKidIds(a, e)) = 1
  /\ TagOf(a, ElemKidIds(a, e)[1]) \in {"article", "main", "div", "section"}

\* C30: where the first step of a pass has only wrappers to collapse, it
\* takes the wrappers out and nothing else: the other elements and the
\* visible text are in the tree in the same order, and an element keeps the
\* attributes it had
C30_CollapseFrame ==
  pc = "cleaning"
    /\ (\A e \in SeqToSet(FindIds(cs, Root, {"div", "section"})) :
          FindAll(Ser(cs, e), {"p", "h1", "img", "picture", "figure", "video"}) # <<>>)
    /\ (\E e \in SeqToSet(Elements(cs)) : Collapses(cs, e))
    => /\ GetText(Ser(BeforeNoise(cs), Root)) = GetText(Ser(cs, Root))
       /\ \E gone \in SUBSET SeqToSet(FindIds(cs, Root, {"div", "section"})) :
            Elements(BeforeNoise(cs)) = SelectSeq(Elements(cs), LAMBDA e : e \notin gone)
       /\ \A e \in SeqToSet(Elements(BeforeNoise(cs))) : \A n \in AttrNames :
            \/ Nd(BeforeNoise(cs), e).attrs[n] = Nd(cs, e).attrs[n]
            \/ n \in {"id", "class"} /\ Nd(cs, e).attrs[n] = <<>>

=============================================================================
